---- MODULE Spec2Model ----
(***************************************************************************)
(* Model of calculate_credits (src/app/utils/credits.py).                  *)
(*                                                                         *)
(* A text is a sequence of Unicode code points.  A Decimal is an integer   *)
(* number of ten-thousandths of a credit (One = 1 credit), so that every   *)
(* Decimal the function builds is represented exactly and quantize() to    *)
(* two decimals is a real rounding to a multiple of RoundingPrecision.     *)
(* The returned dict holds float(d) of Decimals with at most two decimals; *)
(* a field of the result is recorded as the decimal number that float      *)
(* prints and re-parses as, in the same unit.                              *)
(*                                                                         *)
(* One behaviour is one call: Init draws the argument, the actions are the *)
(* commented sections of the function body, in order.                      *)
(***************************************************************************)
EXTENDS Integers, Sequences, FiniteSets

\* ------------------------------------------------------------ bounds
\* every text of at most MaxLen characters is an input
MaxLen == 3
\* a filled text holds a run of 0..MaxFill equal characters, or a run of
\* LengthLimit - Slack .. LengthLimit + Slack of them, between a few others
MaxFill == 8
Slack == 2

\* ------------------------------------------------- program constants
\* Decimal("1"): base cost and minimum cost
One == 10000
\* Decimal("0.05") per character
CharRate == 500
\* Decimal("0.1"), Decimal("0.2"), Decimal("0.3") per word of each length class
ShortWordRate == 1000
MediumWordRate == 2000
LongWordRate == 3000
\* Decimal("0.3") per third-position vowel
VowelRate == 3000
\* Decimal("5")
PenaltyAmount == 50000
\* num_chars > 100
LengthLimit == 100
\* Decimal(".01")
RoundingPrecision == 100
\* Decimal("-2")
BonusAmount == -20000

\* --------------------------------------------------------- characters
\* a A b 1 space hyphen, U+0130 (capital I with dot above), U+212A (Kelvin)
Alphabet == {97, 65, 98, 49, 32, 45, 304, 8490}

\* "aeiou"
VowelString == <<97, 101, 105, 111, 117>>

IsAsciiLetter(c) == (c \in 65..90) \/ (c \in 97..122)

\* the class [a-zA-Z'-]
IsWordChar(c) == IsAsciiLetter(c) \/ c = 39 \/ c = 45

\* the complement of the class [^a-zA-Z0-9]
IsAlnum(c) == IsAsciiLetter(c) \/ (c \in 48..57)

\* str.lower() of one character: a string, of two characters for U+0130
LowerChar(c) ==
    IF c \in 65..90 THEN <<c + 32>>
    ELSE IF c = 304 THEN <<105, 775>>
    ELSE IF c = 8490 THEN <<107>>
    ELSE <<c>>

RECURSIVE LowerRange(_, _, _)
LowerRange(s, lo, hi) ==
    IF lo > hi THEN <<>>
    ELSE IF lo = hi THEN LowerChar(s[lo])
    ELSE LET mid == (lo + hi) \div 2
         IN LowerRange(s, lo, mid) \o LowerRange(s, mid + 1, hi)

\* text.lower(): the characters' lower() in order
Lower(s) == LowerRange(s, 1, Len(s))

\* p in s, for strings
IsSubstring(p, s) ==
    \E k \in 0..(Len(s) - Len(p)) : SubSeq(s, k + 1, k + Len(p)) = p

Reverse(s) == [i \in 1..Len(s) |-> s[Len(s) + 1 - i]]

Max(a, b) == IF a >= b THEN a ELSE b

\* ------------------------------------------------------------- inputs
Rep(c, n) == [i \in 1..n |-> c]

ShortTexts == UNION {[1..n -> Alphabet] : n \in 0..MaxLen}

\* no character or one
Edges == {<<>>} \cup {<<c>> : c \in Alphabet}

\* up to two characters
Heads == Edges \cup {<<c, d>> : c \in Alphabet, d \in Alphabet}

\* a short run between a head and an edge: words of every length class, next
\* to other words
ShortFilledTexts ==
    {h \o Rep(c, n) \o t : h \in Heads, t \in Edges, c \in Alphabet, n \in 0..MaxFill}

\* a run of about LengthLimit characters between two edges
LongFilledTexts ==
    {h \o Rep(c, n) \o t : h \in Edges, t \in Edges, c \in Alphabet,
                          n \in (LengthLimit - Slack)..(LengthLimit + Slack)}

FilledTexts == ShortFilledTexts \cup LongFilledTexts

Texts == ShortTexts \cup FilledTexts

\* ------------------------------------------------------ the function
VARIABLES text, pc, base_cost, char_count_cost, word_length_cost,
          third_vowel_cost, length_penalty, unique_word_bonus,
          palindrome_multiplier, words, credits, result

vars == <<text, pc, base_cost, char_count_cost, word_length_cost,
          third_vowel_cost, length_penalty, unique_word_bonus,
          palindrome_multiplier, words, credits, result>>

costs == <<base_cost, char_count_cost, word_length_cost, third_vowel_cost,
           length_penalty, unique_word_bonus, palindrome_multiplier>>

Init ==
    /\ text \in Texts
    /\ pc = "start"
    /\ base_cost = One
    /\ char_count_cost = 0
    /\ word_length_cost = 0
    /\ third_vowel_cost = 0
    /\ length_penalty = 0
    /\ unique_word_bonus = 0
    /\ palindrome_multiplier = 1
    /\ words = <<>>
    /\ credits = 0
    /\ result = "none"

\* the returned dict
Breakdown(used) ==
    [credits_used |-> used,
     base_cost |-> base_cost,
     char_count_cost |-> char_count_cost,
     word_length_cost |-> word_length_cost,
     third_vowel_cost |-> third_vowel_cost,
     length_penalty |-> length_penalty,
     unique_word_bonus |-> unique_word_bonus,
     palindrome_multiplier |-> palindrome_multiplier]

EmptyBreakdownZero == Breakdown(char_count_cost)

\* credits_used = base_cost, and the dict of the early return
EmptyBreakdown == Breakdown(base_cost)

EmptyMessage ==
    /\ pc = "start"
    /\ text = <<>>
    /\ result' = EmptyBreakdown
    /\ pc' = "done"
    /\ UNCHANGED <<text, costs, words, credits>>

CharCountCostTypo(num_chars) == (CharRate \div 10) * num_chars

CharCountCost(num_chars) == CharRate * num_chars

CharacterCount ==
    /\ pc = "start"
    /\ text # <<>>
    /\ char_count_cost' = CharCountCost(Len(text))
    /\ pc' = "words"
    /\ UNCHANGED <<text, base_cost, word_length_cost, third_vowel_cost,
                   length_penalty, unique_word_bonus, palindrome_multiplier,
                   words, credits, result>>

\* the leftmost match of [a-zA-Z'-]+ at or after i starts at the first
\* character of the class and, the + being greedy, runs to the last one before
\* a character outside it; 0 when there is no match
MatchStart(s, i) ==
    LET starts == {j \in i..Len(s) : IsWordChar(s[j])}
    IN IF starts = {} THEN 0
       ELSE CHOOSE j \in starts : \A k \in starts : j <= k

MatchEnd(s, i) ==
    LET stops == {j \in i..Len(s) : ~IsWordChar(s[j])}
    IN IF stops = {} THEN Len(s)
       ELSE (CHOOSE j \in stops : \A k \in stops : j <= k) - 1

RECURSIVE FindAllFrom(_, _)
FindAllFrom(s, i) ==
    LET b == MatchStart(s, i)
    IN IF b = 0 THEN <<>>
       ELSE <<SubSeq(s, b, MatchEnd(s, b))>> \o FindAllFrom(s, MatchEnd(s, b) + 1)

\* re.findall(r"[a-zA-Z'-]+", text)
FindWords(s) == FindAllFrom(s, 1)

WordCostNoLong(length) ==
    IF 1 <= length /\ length <= 3 THEN ShortWordRate
    ELSE IF 4 <= length /\ length <= 7 THEN MediumWordRate
    ELSE 0

\* the if/elif chain on len(word)
WordCost(length) ==
    IF 1 <= length /\ length <= 3 THEN ShortWordRate
    ELSE IF 4 <= length /\ length <= 7 THEN MediumWordRate
    ELSE IF length >= 8 THEN LongWordRate
    ELSE 0

RECURSIVE WordLengthCost(_, _)
WordLengthCost(ws, i) ==
    IF i > Len(ws) THEN 0 ELSE WordCost(Len(ws[i])) + WordLengthCost(ws, i + 1)

WordLength ==
    /\ pc = "words"
    /\ words' = FindWords(text)
    /\ word_length_cost' = word_length_cost + WordLengthCost(FindWords(text), 1)
    /\ pc' = "vowels"
    /\ UNCHANGED <<text, base_cost, char_count_cost, third_vowel_cost,
                   length_penalty, unique_word_bonus, palindrome_multiplier,
                   credits, result>>

IsThirdVowelFromZero(i, char) ==
    (i - 1) % 3 = 0 /\ IsSubstring(LowerChar(char), VowelString)

\* i % 3 == 0 and char.lower() in "aeiou", i counted from 1
IsThirdVowel(i, char) ==
    i % 3 = 0 /\ IsSubstring(LowerChar(char), VowelString)

\* the loop's sum over the positions lo..hi
RECURSIVE ThirdVowelCost(_, _, _)
ThirdVowelCost(s, lo, hi) ==
    IF lo > hi THEN 0
    ELSE IF lo = hi THEN (IF IsThirdVowel(lo, s[lo]) THEN VowelRate ELSE 0)
    ELSE LET mid == (lo + hi) \div 2
         IN ThirdVowelCost(s, lo, mid) + ThirdVowelCost(s, mid + 1, hi)

ThirdVowels ==
    /\ pc = "vowels"
    /\ third_vowel_cost' = third_vowel_cost + ThirdVowelCost(text, 1, Len(text))
    /\ pc' = "length"
    /\ UNCHANGED <<text, base_cost, char_count_cost, word_length_cost,
                   length_penalty, unique_word_bonus, palindrome_multiplier,
                   words, credits, result>>

ExceedsLimitInclusive(num_chars) == num_chars >= LengthLimit

ExceedsLimit(num_chars) == num_chars > LengthLimit

LengthPenalty ==
    /\ pc = "length"
    /\ length_penalty' = IF ExceedsLimit(Len(text)) THEN PenaltyAmount ELSE length_penalty
    /\ pc' = "unique"
    /\ UNCHANGED <<text, base_cost, char_count_cost, word_length_cost,
                   third_vowel_cost, unique_word_bonus, palindrome_multiplier,
                   words, credits, result>>

AllUniqueOrNone(ws) == Cardinality({ws[i] : i \in DOMAIN ws}) = Len(ws)

\* len(set(words)) == len(words) and words
AllUnique(ws) == Cardinality({ws[i] : i \in DOMAIN ws}) = Len(ws) /\ ws # <<>>

UniqueWordBonus ==
    /\ pc = "unique"
    /\ unique_word_bonus' = IF AllUnique(words) THEN BonusAmount ELSE unique_word_bonus
    /\ pc' = "subtotal"
    /\ UNCHANGED <<text, base_cost, char_count_cost, word_length_cost,
                   third_vowel_cost, length_penalty, palindrome_multiplier,
                   words, credits, result>>

SubtotalNoVowels(b, c, w, v, l, u) == b + c + w + l + u

Subtotal(b, c, w, v, l, u) == b + c + w + v + l + u

TotalBeforePalindrome ==
    /\ pc = "subtotal"
    /\ credits' = Subtotal(base_cost, char_count_cost, word_length_cost,
                           third_vowel_cost, length_penalty, unique_word_bonus)
    /\ pc' = "floor"
    /\ UNCHANGED <<text, costs, words, result>>

NoMinimum(c) == c

\* max(credits, Decimal("1"))
Minimum(c) == Max(c, One)

MinimumCost ==
    /\ pc = "floor"
    /\ credits' = Minimum(credits)
    /\ pc' = "palindrome"
    /\ UNCHANGED <<text, costs, words, result>>

StripThenLower(s) == Lower(SelectSeq(s, IsAlnum))

\* re.sub(r"[^a-zA-Z0-9]", "", text.lower())
ProcessedMessage(s) == SelectSeq(Lower(s), IsAlnum)

IsPalindrome(p) == p = Reverse(p) /\ p # <<>>

PalindromeCheck ==
    /\ pc = "palindrome"
    /\ IF IsPalindrome(ProcessedMessage(text))
       THEN /\ palindrome_multiplier' = 2
            /\ credits' = credits * 2
       ELSE UNCHANGED <<palindrome_multiplier, credits>>
    /\ pc' = "round"
    /\ UNCHANGED <<text, base_cost, char_count_cost, word_length_cost,
                   third_vowel_cost, length_penalty, unique_word_bonus,
                   words, result>>

\* d.quantize(p, rounding=ROUND_HALF_UP): to the nearest multiple of p, a tie
\* away from zero
QuantizeTo(d, p) ==
    IF d >= 0 THEN ((2 * d + p) \div (2 * p)) * p
    ELSE 0 - (((2 * (0 - d) + p) \div (2 * p)) * p)

QuantizeCoarse(d) == QuantizeTo(d, 10 * RoundingPrecision)

Quantize(d) == QuantizeTo(d, RoundingPrecision)

Round ==
    /\ pc = "round"
    /\ credits' = Quantize(credits)
    /\ char_count_cost' = Quantize(char_count_cost)
    /\ word_length_cost' = Quantize(word_length_cost)
    /\ third_vowel_cost' = Quantize(third_vowel_cost)
    /\ length_penalty' = Quantize(length_penalty)
    /\ unique_word_bonus' = Quantize(unique_word_bonus)
    /\ pc' = "return"
    /\ UNCHANGED <<text, base_cost, palindrome_multiplier, words, result>>

Return ==
    /\ pc = "return"
    /\ result' = Breakdown(credits)
    /\ pc' = "done"
    /\ UNCHANGED <<text, costs, words, credits>>

Next ==
    \/ EmptyMessage
    \/ CharacterCount
    \/ WordLength
    \/ ThirdVowels
    \/ LengthPenalty
    \/ UniqueWordBonus
    \/ TotalBeforePalindrome
    \/ MinimumCost
    \/ PalindromeCheck
    \/ Round
    \/ Return

Spec == Init /\ [][Next]_vars

\* ============================================================ claims
\* The statements below are written from the specification's words, with
\* their own definitions of the tokenized words, of case-folding and of a
\* palindrome, and are compared with what the function returns.

Returned == pc = "done"

\* the sum of the returned terms other than the multiplier
SumOfTerms ==
    result.base_cost + result.char_count_cost + result.word_length_cost
    + result.third_vowel_cost + result.length_penalty + result.unique_word_bonus

\* ASCII letters, apostrophe, hyphen
SpecWordChars == (65..90) \cup (97..122) \cup {39, 45}

\* ASCII letters and digits
SpecAlnumChars == (65..90) \cup (97..122) \cup (48..57)

\* the positions where a maximal run of word characters starts, and ends
RunStarts(s) ==
    {i \in 1..Len(s) : s[i] \in SpecWordChars /\ (i = 1 \/ s[i - 1] \notin SpecWordChars)}

RunEnds(s) ==
    {j \in 1..Len(s) : s[j] \in SpecWordChars /\ (j = Len(s) \/ s[j + 1] \notin SpecWordChars)}

\* the maximal run that starts at i
RunAt(s, i) ==
    SubSeq(s, i, CHOOSE j \in RunEnds(s) : j >= i /\ \A k \in RunEnds(s) : k >= i => j <= k)

\* p is non-empty and reads the same in both directions
SpecPalindrome(p) == p # <<>> /\ \A i \in 1..Len(p) : p[i] = p[Len(p) + 1 - i]

\* C1: credits_used is the multiplier times max(1, sum of the other terms):
\* the floor of 1 is applied to the subtotal before the doubling.
Thm_C1 ==
    Returned => result.credits_used = result.palindrome_multiplier * Max(10000, SumOfTerms)

\* a palindrome whose subtotal is below 1 is charged exactly 2
Wit_C1 ==
    /\ Returned
    /\ result.palindrome_multiplier = 2
    /\ SumOfTerms < 10000
    /\ result.credits_used = 20000

\* C2: credits_used is at least 1, and at least 2 when the palindrome
\* multiplier is 2.
Thm_C2 ==
    Returned =>
        /\ result.credits_used >= 10000
        /\ (result.palindrome_multiplier = 2 => result.credits_used >= 20000)

\* a text that is no palindrome and whose subtotal is below 1 is charged 1
Wit_C2 ==
    /\ Returned
    /\ text # <<>>
    /\ result.palindrome_multiplier = 1
    /\ SumOfTerms < 10000
    /\ result.credits_used = 10000

\* remove from the raw text what is no ASCII letter or digit, then case-fold
\* the rest (ASCII only by then)
SpecStripThenFold(s) ==
    LET kept == SelectSeq(s, LAMBDA c : c \in SpecAlnumChars)
    IN [i \in 1..Len(kept) |-> IF kept[i] \in 65..90 THEN kept[i] + 32 ELSE kept[i]]

\* C3 as stated: for a non-empty text the multiplier is 2 exactly when the
\* text, stripped of what is no ASCII letter or digit and then case-folded,
\* is a non-empty palindrome.
Orig_C3 ==
    (Returned /\ text # <<>>) =>
        (result.palindrome_multiplier = 2 <=> SpecPalindrome(SpecStripThenFold(text)))

\* what one character leaves after the text is lower-cased and what is no
\* ASCII letter or digit is removed from the lower-cased text: U+212A
\* (Kelvin) lower-cases to k, U+0130 to i followed by U+0307
LoweredKept(c) ==
    IF c \in 65..90 THEN <<c + 32>>
    ELSE IF c \in (97..122) \cup (48..57) THEN <<c>>
    ELSE IF c = 8490 THEN <<107>>
    ELSE IF c = 304 THEN <<105>>
    ELSE <<>>

RECURSIVE LowerThenStrip(_, _, _)
LowerThenStrip(s, lo, hi) ==
    IF lo > hi THEN <<>>
    ELSE IF lo = hi THEN LoweredKept(s[lo])
    ELSE LET mid == (lo + hi) \div 2
         IN LowerThenStrip(s, lo, mid) \o LowerThenStrip(s, mid + 1, hi)

\* C3, amended: for a non-empty text the multiplier is 2 exactly when the
\* text, lower-cased first and then stripped of what is no ASCII letter or
\* digit, is a non-empty palindrome; otherwise it is 1.
Thm_C3 ==
    (Returned /\ text # <<>>) =>
        /\ result.palindrome_multiplier \in {1, 2}
        /\ result.palindrome_multiplier = 2
               <=> SpecPalindrome(LowerThenStrip(text, 1, Len(text)))

\* a doubled text that is no palindrome once its non-ASCII characters are
\* removed before the case-folding
Wit_C3 ==
    /\ Returned
    /\ text # <<>>
    /\ result.palindrome_multiplier = 2
    /\ ~SpecPalindrome(SpecStripThenFold(text))

\* C4: unique_word_bonus is -2 exactly when there is a tokenized word and no
\* two tokenized words are equal, case-sensitively; otherwise 0.
Thm_C4 ==
    Returned =>
        result.unique_word_bonus =
            IF /\ RunStarts(text) # {}
               /\ \A i, j \in RunStarts(text) : i # j => RunAt(text, i) # RunAt(text, j)
            THEN -20000 ELSE 0

\* two words that differ in case only, and the bonus
Wit_C4 ==
    /\ Returned
    /\ text = <<97, 32, 65>>
    /\ result.unique_word_bonus = -20000

\* C5: length_penalty is 5 when the text has more than 100 characters and 0
\* otherwise, and it is part of the subtotal before the floor and the
\* multiplier.
Thm_C5 ==
    LET penalty == IF Len(text) > 100 THEN 50000 ELSE 0
    IN /\ Returned => result.length_penalty = penalty
       /\ pc = "floor" =>
              credits = base_cost + char_count_cost + word_length_cost
                        + third_vowel_cost + unique_word_bonus + penalty

\* a text of 101 characters, charged the penalty
Wit_C5 ==
    /\ Returned
    /\ Len(text) = 101
    /\ result.length_penalty = 50000

\* the characters whose case-fold is one of a, e, i, o, u: the ASCII vowels
\* of either case (U+0130 folds to two characters)
FoldsToVowel == {97, 101, 105, 111, 117, 65, 69, 73, 79, 85}

\* C6: third_vowel_cost is 0.3 times the number of 1-based positions that
\* are multiples of 3 and hold a vowel of either case.
Thm_C6 ==
    Returned =>
        result.third_vowel_cost =
            3000 * Cardinality({i \in 1..Len(text) : i % 3 = 0 /\ text[i] \in FoldsToVowel})

\* "aaa" gives 0.30
Wit_C6 ==
    /\ Returned
    /\ text = <<97, 97, 97>>
    /\ result.third_vowel_cost = 3000

\* C7: word_length_cost is 0.1 per tokenized word of length 1 to 3, 0.2 per
\* word of length 4 to 7 and 0.3 per word of length 8 or more, and every
\* tokenized word has a length of at least 1.
Thm_C7 ==
    Returned =>
        LET len(i) == Len(RunAt(text, i))
            starts == RunStarts(text)
        IN /\ result.word_length_cost =
                  1000 * Cardinality({i \in starts : len(i) >= 1 /\ len(i) <= 3})
                  + 2000 * Cardinality({i \in starts : len(i) >= 4 /\ len(i) <= 7})
                  + 3000 * Cardinality({i \in starts : len(i) >= 8})
           /\ Len(words) = Cardinality(starts)
           /\ \A k \in 1..Len(words) : Len(words[k]) >= 1

\* a text with a word of 8 or more characters and a word of 1 to 3
Wit_C7 ==
    /\ Returned
    /\ \E i \in RunStarts(text) : Len(RunAt(text, i)) >= 8
    /\ \E i \in RunStarts(text) : Len(RunAt(text, i)) <= 3
    /\ Len(words) = 2
    /\ result.word_length_cost = 4000

\* C8: the empty text returns credits_used 1, base_cost 1, multiplier 1 and
\* every surcharge 0, the eight fields and no other.
Thm_C8 ==
    (Returned /\ text = <<>>) =>
        result = [credits_used |-> 10000, base_cost |-> 10000,
                  char_count_cost |-> 0, word_length_cost |-> 0,
                  third_vowel_cost |-> 0, length_penalty |-> 0,
                  unique_word_bonus |-> 0, palindrome_multiplier |-> 1]

Wit_C8 ==
    /\ Returned
    /\ text = <<>>
    /\ result.credits_used = 10000

\* post has at most 2 decimals and is the multiple of 0.01 nearest to pre, a
\* tie going away from zero
IsHalfUpOf(pre, post) ==
    /\ post % 100 = 0
    /\ pre >= 0 => (2 * (post - pre) <= 100 /\ 2 * (pre - post) < 100)
    /\ pre < 0 => (2 * (pre - post) <= 100 /\ 2 * (post - pre) < 100)

RoundingStep ==
    /\ pc = "round" =>
          /\ char_count_cost = 500 * Len(text)
          /\ IsHalfUpOf(credits, credits')
          /\ IsHalfUpOf(char_count_cost, char_count_cost')
          /\ IsHalfUpOf(word_length_cost, word_length_cost')
          /\ IsHalfUpOf(third_vowel_cost, third_vowel_cost')
          /\ IsHalfUpOf(length_penalty, length_penalty')
          /\ IsHalfUpOf(unique_word_bonus, unique_word_bonus')
    /\ pc' = "done" =>
          /\ result'.credits_used % 100 = 0
          /\ result'.char_count_cost % 100 = 0
          /\ result'.word_length_cost % 100 = 0
          /\ result'.third_vowel_cost % 100 = 0
          /\ result'.length_penalty % 100 = 0
          /\ result'.unique_word_bonus % 100 = 0
    /\ pc = "return" =>
          /\ result'.credits_used = credits
          /\ result'.char_count_cost = char_count_cost
          /\ result'.word_length_cost = word_length_cost
          /\ result'.third_vowel_cost = third_vowel_cost
          /\ result'.length_penalty = length_penalty
          /\ result'.unique_word_bonus = unique_word_bonus

\* C9: each monetary field returned has at most 2 fractional digits and is
\* its pre-rounding value rounded half-up to 2 decimals, the pre-rounding
\* char_count_cost being 0.05 times the character count.
Thm_C9 == [][RoundingStep]_vars

\* a returned char_count_cost that uses its second decimal
Wit_C9 ==
    /\ Returned
    /\ text # <<>>
    /\ result.char_count_cost = 500 * Len(text)
    /\ result.char_count_cost % 1000 = 500

MultiplesOfFiveHundredths ==
    /\ credits % 500 = 0
    /\ char_count_cost % 500 = 0
    /\ word_length_cost % 500 = 0
    /\ third_vowel_cost % 500 = 0
    /\ length_penalty % 500 = 0
    /\ unique_word_bonus % 500 = 0

\* C10: every value the function computes is a multiple of 0.05 and the
\* rounding to 2 decimals changes no field.
Thm_C10 ==
    /\ [](MultiplesOfFiveHundredths)
    /\ [][pc = "round" => (credits' = credits /\ costs' = costs)]_vars

\* a returned total that is an odd multiple of 0.05
Wit_C10 ==
    /\ Returned
    /\ result.palindrome_multiplier = 1
    /\ result.credits_used > 10000
    /\ result.credits_used % 1000 = 500

====
